---- MODULE Spec2Model ----
(***************************************************************************)
(* Symbolic expressions (src/expressions/expressions.py): the node classes,  *)
(* the arithmetic operators that build nodes, the readable rendering, the  *)
(* explicit-stack postorder visitor and the differentiation rules.         *)
(*                                                                         *)
(* Objects live in a heap: a node's identity is its index in the heap, as  *)
(* the visitor's memo is keyed by object identity (Expression defines no   *)
(* __eq__ and no __hash__).                                                *)
(***************************************************************************)
EXTENDS Integers, Sequences, FiniteSets, TLC

VARIABLES
    heap,      \* the Expression objects constructed so far: Seq of [kind, operands, value]
    call,      \* the library call in progress or last finished: [name, args]
    pc,        \* "idle", "loop" (inside postvisitor's while), "done" (returned), "raised"
    expr,      \* postvisitor's expr: the root node (0 outside a traversal)
    fn,        \* postvisitor's fn: "count" (a counting visitor) or "differentiate"
    kwargs,    \* postvisitor's **kwargs: the value bound to var, or Absent
    stack,     \* postvisitor's stack: Seq of node identities, top last
    visited,   \* postvisitor's visited: function from node identities to results
    calls,     \* the invocations of fn so far: Seq of [node, args, res]
    result     \* what the last call returned or raised

vars == <<heap, call, pc, expr, fn, kwargs, stack, visited, calls, result>>

\* Number of Expression objects up to which the caller keeps building and calling.
MaxBuild == 3
\* Number of nodes of the operand graphs handed to postvisitor as given inputs.
MaxNodes == 3

-----------------------------------------------------------------------------
(* Python values: native numbers and strings, None, references to nodes, and *)
(* a raised exception as the outcome of an evaluation.                       *)

PyInt(n) == [ty |-> "int", n |-> n, s |-> ""]
\* The float n.0
PyFloat(n) == [ty |-> "float", n |-> n, s |-> ""]
PyStr(s) == [ty |-> "str", n |-> 0, s |-> s]
None == [ty |-> "none", n |-> 0, s |-> ""]
Ref(i) == [ty |-> "node", n |-> i, s |-> ""]
Raise(e) == [ty |-> "error", n |-> 0, s |-> e]
\* A keyword argument that was not passed.
Absent == [ty |-> "absent", n |-> 0, s |-> ""]

IsError(v) == v.ty = "error"
\* isinstance(v, numbers.Number)
IsNumber(v) == v.ty \in {"int", "float"}
\* isinstance(v, str)
IsStr(v) == v.ty = "str"
\* isinstance(v, Expression)
IsExpression(v) == v.ty = "node"

\* An evaluation's outcome: the heap it leaves and the value (or exception).
Out(h, r) == [h |-> h, r |-> r]

\* o[i] of a Python tuple, i counted from 0.
Index(o, i) == IF i + 1 <= Len(o) THEN o[i + 1] ELSE Raise("IndexError")

-----------------------------------------------------------------------------
(* The node classes.                                                       *)

OperatorKinds == {"Add", "Sub", "Mul", "Div", "Pow"}
TerminalKinds == {"Number", "Symbol"}

\* Expression.__init__(self, *o) for class kind: any operand tuple is stored.
ExpressionInit(h, kind, o) ==
    Out(Append(h, [kind |-> kind, operands |-> o, value |-> None]), Ref(Len(h) + 1))

\* Terminal.__init__(self, value): no operands, then the value.
TerminalInit(h, kind, value) ==
    Out(Append(h, [kind |-> kind, operands |-> <<>>, value |-> value]), Ref(Len(h) + 1))

\* Number(value)
Number(h, value) ==
    IF IsNumber(value) THEN TerminalInit(h, "Number", value)
    ELSE Out(h, Raise("TypeError"))

\* Symbol(value)
Symbol(h, value) ==
    IF IsStr(value) THEN TerminalInit(h, "Symbol", value)
    ELSE Out(h, Raise("TypeError"))

\* The class attribute symbol.
GlyphOf(kind) ==
    CASE kind = "Add" -> "+"
      [] kind = "Mul" -> "*"
      [] kind = "Div" -> "/"
      [] kind = "Sub" -> "-"
      [] kind = "Pow" -> "^"

\* The class attribute precedence; a bare Expression has none (-1 here).
PrecedenceOf(kind) ==
    CASE kind = "Add" -> 0
      [] kind = "Mul" -> 1
      [] kind = "Div" -> 1
      [] kind = "Sub" -> 0
      [] kind = "Pow" -> 2
      [] kind \in TerminalKinds -> 3
      [] OTHER -> -1

-----------------------------------------------------------------------------
(* The arithmetic operators of Expression.                                 *)

\* self.__op__(other): the body shared by __add__, __mul__, __sub__,
\* __truediv__ and __pow__. No branch is taken for any other operand, so the
\* method returns None.
Forward(h, kind, self, other) ==
    IF IsExpression(other) THEN ExpressionInit(h, kind, <<self.n, other.n>>)
    ELSE IF IsNumber(other)
         THEN LET numexp == Number(h, other)
              IN ExpressionInit(numexp.h, kind, <<self.n, numexp.r.n>>)
         ELSE Out(h, None)

\* self.__rop__(other): term = Number(other); return term op self.
Reflected(h, kind, self, other) ==
    LET term == Number(h, other)
    IN IF IsError(term.r) THEN term ELSE Forward(term.h, kind, term.r, self)

add(h, self, other) == Forward(h, "Add", self, other)
radd(h, self, other) == Reflected(h, "Add", self, other)
mul(h, self, other) == Forward(h, "Mul", self, other)
rmul(h, self, other) == Reflected(h, "Mul", self, other)
sub(h, self, other) == Forward(h, "Sub", self, other)
\* __rsub__ as self - Number(other): the operands exchanged.
rsubSwapped(h, self, other) == Forward(h, "Sub", self, other)
rsub(h, self, other) == Reflected(h, "Sub", self, other)
truediv(h, self, other) == Forward(h, "Div", self, other)
rtruediv(h, self, other) == Reflected(h, "Div", self, other)
pow(h, self, other) == Forward(h, "Pow", self, other)
rpow(h, self, other) == Reflected(h, "Pow", self, other)

Methods == {"add", "mul", "sub", "truediv", "pow"}

\* The method of the left operand.
CallForward(h, m, self, other) ==
    CASE m = "add" -> add(h, self, other)
      [] m = "mul" -> mul(h, self, other)
      [] m = "sub" -> sub(h, self, other)
      [] m = "truediv" -> truediv(h, self, other)
      [] m = "pow" -> pow(h, self, other)

\* The reflected method of the right operand.
CallReflected(h, m, self, other) ==
    CASE m = "add" -> radd(h, self, other)
      [] m = "mul" -> rmul(h, self, other)
      [] m = "sub" -> rsub(h, self, other)
      [] m = "truediv" -> rtruediv(h, self, other)
      [] m = "pow" -> rpow(h, self, other)

\* The expression "a op b" inside the library's code, a and b evaluated in this
\* order (an exception in a hides b's). An Expression on the left answers with
\* its method; otherwise the left operand's own method gives NotImplemented
\* (or does not exist) and the Expression on the right answers with its
\* reflected method. Two operands that are both no Expression do not occur.
BinOp(h, m, a, b) ==
    IF IsError(a) THEN Out(h, a)
    ELSE IF IsError(b) THEN Out(h, b)
    ELSE IF IsExpression(a) THEN CallForward(h, m, a, b)
    ELSE IF IsExpression(b) THEN CallReflected(h, m, b, a)
    ELSE Out(h, Raise("TypeError"))

-----------------------------------------------------------------------------
(* Rendering.                                                              *)

\* str(value) of a wrapped native value: an int prints its digits, a float
\* (integral here) its digits and ".0", a string itself.
StrOfValue(v) ==
    CASE v.ty = "int" -> ToString(v.n)
      [] v.ty = "float" -> ToString(v.n) \o ".0"
      [] v.ty = "str" -> v.s
      [] OTHER -> "None"

\* str(node) with >= for >: an operand of the node's own precedence is put in
\* parentheses too.
RECURSIVE strParenEqual(_, _)
strParenEqual(h, i) ==
    LET self == h[i]
        side(k) ==
            IF k + 1 > Len(self.operands) THEN Raise("IndexError")
            ELSE LET c == self.operands[k + 1]
                 IN IF PrecedenceOf(h[c].kind) < 0 THEN Raise("AttributeError")
                    ELSE LET sc == strParenEqual(h, c)
                         IN IF IsError(sc) THEN sc
                            ELSE IF PrecedenceOf(self.kind) >= PrecedenceOf(h[c].kind)
                                 THEN PyStr("(" \o sc.s \o ")")
                                 ELSE sc
    IN IF self.kind \in TerminalKinds THEN PyStr(StrOfValue(self.value))
       ELSE IF self.kind \notin OperatorKinds THEN PyStr("<Expression object>")
       ELSE LET r0 == side(0)
                r1 == side(1)
            IN IF IsError(r0) THEN r0
               ELSE IF IsError(r1) THEN r1
               ELSE PyStr(r0.s \o " " \o GlyphOf(self.kind) \o " " \o r1.s)

\* str(node): Terminal.__str__, Opearator.__str__, and object's default for a
\* bare Expression. An operator with fewer than two operands raises IndexError,
\* one with an operand that has no precedence attribute raises AttributeError.
RECURSIVE str(_, _)
str(h, i) ==
    LET self == h[i]
        side(k) ==
            IF k + 1 > Len(self.operands) THEN Raise("IndexError")
            ELSE LET c == self.operands[k + 1]
                 IN IF PrecedenceOf(h[c].kind) < 0 THEN Raise("AttributeError")
                    ELSE LET sc == str(h, c)
                         IN IF IsError(sc) THEN sc
                            ELSE IF PrecedenceOf(self.kind) > PrecedenceOf(h[c].kind)
                                 THEN PyStr("(" \o sc.s \o ")")
                                 ELSE sc
    IN IF self.kind \in TerminalKinds THEN PyStr(StrOfValue(self.value))
       ELSE IF self.kind \notin OperatorKinds THEN PyStr("<Expression object>")
       ELSE LET r0 == side(0)
                r1 == side(1)
            IN IF IsError(r0) THEN r0
               ELSE IF IsError(r1) THEN r1
               ELSE PyStr(r0.s \o " " \o GlyphOf(self.kind) \o " " \o r1.s)

-----------------------------------------------------------------------------
(* Differentiation: the singledispatch function differentiate and the rules *)
(* registered on it. e is the node, o the positional arguments after it,    *)
(* var the keyword argument var (Absent when not passed).                   *)

\* expr.operands[i]
Operand(h, e, i) ==
    IF i + 1 <= Len(h[e].operands) THEN Ref(h[e].operands[i + 1]) ELSE Raise("IndexError")

\* The expressions the rules return, as written: o[i], expr.operands[i], an
\* integer literal, and the arithmetic operators.
O(i) == <<"o", i>>
E(i) == <<"operand", i>>
Lit(n) == <<"literal", n>>
Plus(l, r) == <<"add", l, r>>
Minus(l, r) == <<"sub", l, r>>
Times(l, r) == <<"mul", l, r>>
Over(l, r) == <<"truediv", l, r>>
Power(l, r) == <<"pow", l, r>>

\* Python's evaluation of such an expression for node e and arguments o: the
\* left operand, then the right one, then the operator; the first exception
\* ends the evaluation.
RECURSIVE Eval(_, _, _, _)
Eval(h, e, o, t) ==
    CASE t[1] = "o" -> Out(h, Index(o, t[2]))
      [] t[1] = "operand" -> Out(h, Operand(h, e, t[2]))
      [] t[1] = "literal" -> Out(h, PyInt(t[2]))
      [] OTHER ->
           LET l == Eval(h, e, o, t[2])
               r == IF IsError(l.r) THEN l ELSE Eval(l.h, e, o, t[3])
           IN BinOp(r.h, t[1], l.r, r.r)

\* The fallback returning None instead of raising.
differentiateDefaultNone(h, e, o, var) == Out(h, None)

\* The fallback: raise NotImplementedError.
differentiateDefault(h, e, o, var) == Out(h, Raise("NotImplementedError"))

\* @differentiate.register(Number): return Number(0.0)
differentiateNumber(h, e, o, var) == Number(h, PyFloat(0))

\* The rule with var not keyword-only: the name may come by position.
differentiateSymbolPositional(h, e, o, var) ==
    LET v == IF var = Absent THEN Index(o, 0) ELSE var
    IN IF IsError(v) THEN Out(h, Raise("TypeError"))
       ELSE Number(h, PyFloat(IF v = h[e].value THEN 1 ELSE 0))

\* @differentiate.register(Symbol): var is keyword-only and required;
\* return Number(float(var == expr.value))
differentiateSymbol(h, e, o, var) ==
    IF var = Absent THEN Out(h, Raise("TypeError"))
    ELSE Number(h, PyFloat(IF var = h[e].value THEN 1 ELSE 0))

\* @differentiate.register(Add): return o[0] + o[1]
differentiateAdd == Plus(O(0), O(1))

\* @differentiate.register(Sub): return o[0] - o[1]
differentiateSub == Minus(O(0), O(1))

\* The product rule with the operands exchanged.
differentiateMulSwapped == Plus(Times(O(0), E(0)), Times(O(1), E(1)))

\* @differentiate.register(Mul): return o[0]*expr.operands[1] + o[1]*expr.operands[0]
differentiateMul == Plus(Times(O(0), E(1)), Times(O(1), E(0)))

\* @differentiate.register(Div):
\* return (o[0]*expr.operands[1]-expr.operands[0]*o[1])/(expr.operands[1]**2)
differentiateDiv == Over(Minus(Times(O(0), E(1)), Times(E(0), O(1))), Power(E(1), Lit(2)))

\* @differentiate.register(Pow):
\* return expr.operands[1]*(expr.operands[0]**(expr.operands[1]-1))*(o[0])
differentiatePow == Times(Times(E(1), Power(E(0), Minus(E(1), Lit(1)))), O(0))

\* The rule registered for an operator class.
Registered(kind) ==
    CASE kind = "Add" -> differentiateAdd
      [] kind = "Sub" -> differentiateSub
      [] kind = "Mul" -> differentiateMul
      [] kind = "Div" -> differentiateDiv
      [] kind = "Pow" -> differentiatePow

\* differentiate(expr, *o, var=var): dispatch on type(expr).
differentiate(h, e, o, var) ==
    CASE h[e].kind = "Number" -> differentiateNumber(h, e, o, var)
      [] h[e].kind = "Symbol" -> differentiateSymbol(h, e, o, var)
      [] h[e].kind \in OperatorKinds -> Eval(h, e, o, Registered(h[e].kind))
      [] OTHER -> differentiateDefault(h, e, o, var)

-----------------------------------------------------------------------------
(* The postorder visitor.                                                  *)

Fns == {"count", "differentiate"}

\* A visitor that counts its invocations and returns the count: every
\* invocation returns a new object.
count(h, e, o, n) == Out(h, PyInt(n + 1))

\* fn(e, *(visited[o] for o in e.operands), **kwargs), the n+1st invocation.
Apply(h, f, e, o, kw, n) ==
    IF f = "differentiate" THEN differentiate(h, e, o, kw) ELSE count(h, e, o, n)

\* The operands of e that are not in visited, in operand order (a node that
\* is both operands is listed twice).
UnvisitedChildren(h, e, vis) ==
    SelectSeq(h[e].operands, LAMBDA c : c \notin DOMAIN vis)

\* The results handed over in reverse operand order.
OperandResultsReversed(h, e, vis) ==
    [k \in 1..Len(h[e].operands) |-> vis[h[e].operands[Len(h[e].operands) + 1 - k]]]

\* visited[o] for o in e.operands
OperandResults(h, e, vis) ==
    [k \in 1..Len(h[e].operands) |-> vis[h[e].operands[k]]]

\* visited[e] = r
Memoize(vis, e, r) ==
    [i \in DOMAIN vis \cup {e} |-> IF i = e THEN r ELSE vis[i]]

\* The stack is a Python list with no limit of its own; on an operand graph
\* without cycles a node pushes its operands at most once, so the stack never
\* holds more than 2 * Len(heap) + 1 entries. Beyond that the traversal is
\* cut off: it is in a cycle and grows the stack for ever.
StackCap(h) == 2 * Len(h) + 1

\* The top of the stack: e = stack.pop()
Top(st) == st[Len(st)]
Pop(st) == SubSeq(st, 1, Len(st) - 1)

\* The caller may go on after a call that added nodes; a call that raised
\* ended the caller's run, and so does here one that left the heap as it was
\* (what would follow it is what follows the state before it).
CanCall ==
    /\ pc \in {"idle", "done"}
    /\ Len(heap) <= MaxBuild

NoTraversal ==
    /\ expr' = 0
    /\ fn' = "none"
    /\ kwargs' = Absent
    /\ stack' = <<>>
    /\ visited' = <<>>
    /\ calls' = <<>>

\* A call outside postvisitor that returns or raises at once.
Finish(name, args, out) ==
    /\ call' = [name |-> name, args |-> args]
    /\ result' = out.r
    /\ heap' = IF IsError(out.r) THEN heap ELSE out.h
    /\ pc' = IF IsError(out.r) THEN "raised"
             ELSE IF out.h = heap THEN "returned" ELSE "idle"
    /\ NoTraversal

Names == {"x", "y"}
\* The native values the caller passes: a number, a string, and for the
\* constructors a value of the wrong type.
NativeArgs == {PyInt(2), PyStr("x")}
NumberArgs == {PyInt(2), PyStr("x")}
SymbolArgs == {PyStr(n) : n \in Names} \cup {PyInt(2)}
\* The name a traversal differentiates by: the expressions hold both names,
\* and exchanging the two names exchanges the traversals by "x" and by "y".
Vars == {"x"}
Nodes == 1..Len(heap)
\* The node built last: the caller works bottom-up, every call taking the
\* node built last as the expression or as one of the operands. A call on an
\* older node is the same call in the state where that node was the last.
Newest == {Len(heap)} \ {0}
\* The classes called directly with fewer than two operands.
DirectKinds == {"Expression", "Add"}

\* Number(v)
CallNumber(v) ==
    /\ CanCall
    /\ Len(heap) < MaxBuild
    /\ Finish("Number", <<v>>, Number(heap, v))

\* Symbol(v)
CallSymbol(v) ==
    /\ CanCall
    /\ Len(heap) < MaxBuild
    /\ Finish("Symbol", <<v>>, Symbol(heap, v))

\* kind(*o): the classes that inherit Expression.__init__ take any operands.
CallExpression(kind, o) ==
    /\ CanCall
    /\ Len(heap) < MaxBuild
    /\ Finish(kind, [k \in 1..Len(o) |-> Ref(o[k])], ExpressionInit(heap, kind, o))

\* a m b in the caller's code, at least one of a, b an Expression.
CallOperator(m, a, b) ==
    /\ CanCall
    /\ \E e \in Newest : a = Ref(e) \/ b = Ref(e)
    /\ Len(heap) + (IF IsExpression(a) /\ IsExpression(b) THEN 1 ELSE 2) <= MaxBuild
    /\ Finish(m, <<a, b>>, BinOp(heap, m, a, b))

\* str(e)
CallStr(e) ==
    /\ CanCall
    /\ Finish("str", <<Ref(e)>>, Out(heap, str(heap, e)))

\* differentiate(e, *o, var=v) called by the caller itself.
CallDifferentiate(e, o, v) ==
    /\ CanCall
    /\ Finish("differentiate", <<Ref(e)>> \o o \o <<v>>, differentiate(heap, e, o, v))

\* postvisitor(e, f, var=kw) up to the while loop.
Enter(e, f, kw) ==
    /\ call' = [name |-> "postvisitor", args |-> <<Ref(e)>>]
    /\ expr' = e
    /\ fn' = f
    /\ kwargs' = kw
    /\ stack' = <<e>>
    /\ visited' = <<>>
    /\ calls' = <<>>
    /\ result' = None
    /\ pc' = "loop"
    /\ UNCHANGED heap

\* postvisitor(e, differentiate, var=kw) on an expression the caller built.
CallPostvisitor(e, kw) ==
    /\ CanCall
    /\ Enter(e, "differentiate", kw)

\* The iteration without stack.append(e): e is lost from the stack.
LoopPushForgets ==
    /\ pc = "loop"
    /\ stack # <<>>
    /\ LET e == Top(stack)
           unvisited_children == UnvisitedChildren(heap, e, visited)
       IN /\ unvisited_children # <<>>
          /\ Len(stack) + Len(unvisited_children) <= StackCap(heap)
          /\ stack' = Pop(stack) \o unvisited_children
    /\ UNCHANGED <<heap, call, pc, expr, fn, kwargs, visited, calls, result>>

\* The iteration with a check for cycles: an unvisited operand that is e
\* itself or waits on the stack below e makes postvisitor raise.
LoopPushRejects ==
    /\ pc = "loop"
    /\ stack # <<>>
    /\ LET e == Top(stack)
           unvisited_children == UnvisitedChildren(heap, e, visited)
           below == {stack[k] : k \in 1..Len(stack)}
       IN /\ unvisited_children # <<>>
          /\ Len(stack) + Len(unvisited_children) <= StackCap(heap)
          /\ IF \E k \in 1..Len(unvisited_children) : unvisited_children[k] \in below
             THEN /\ pc' = "raised"
                  /\ result' = Raise("ValueError")
                  /\ stack' = Pop(stack)
             ELSE /\ stack' = Append(Pop(stack), e) \o unvisited_children
                  /\ UNCHANGED <<pc, result>>
    /\ UNCHANGED <<heap, call, expr, fn, kwargs, visited, calls>>

\* One iteration of the while loop in which e has unvisited operands:
\* e goes back on the stack, the unvisited operands on top of it.
LoopPush ==
    /\ pc = "loop"
    /\ stack # <<>>
    /\ LET e == Top(stack)
           unvisited_children == UnvisitedChildren(heap, e, visited)
       IN /\ unvisited_children # <<>>
          /\ Len(stack) + Len(unvisited_children) <= StackCap(heap)
          /\ stack' = Append(Pop(stack), e) \o unvisited_children
    /\ UNCHANGED <<heap, call, pc, expr, fn, kwargs, visited, calls, result>>

\* One iteration in which all operands of e are visited and fn returns.
LoopVisit ==
    /\ pc = "loop"
    /\ stack # <<>>
    /\ LET e == Top(stack)
           o == OperandResults(heap, e, visited)
           out == Apply(heap, fn, e, o, kwargs, Len(calls))
       IN /\ UnvisitedChildren(heap, e, visited) = <<>>
          /\ ~IsError(out.r)
          /\ stack' = Pop(stack)
          /\ visited' = Memoize(visited, e, out.r)
          /\ calls' = Append(calls, [node |-> e, args |-> o, res |-> out.r])
          /\ heap' = out.h
    /\ UNCHANGED <<call, pc, expr, fn, kwargs, result>>

\* One iteration in which fn raises: the exception leaves postvisitor.
LoopRaise ==
    /\ pc = "loop"
    /\ stack # <<>>
    /\ LET e == Top(stack)
           o == OperandResults(heap, e, visited)
           out == Apply(heap, fn, e, o, kwargs, Len(calls))
       IN /\ UnvisitedChildren(heap, e, visited) = <<>>
          /\ IsError(out.r)
          /\ stack' = Pop(stack)
          /\ calls' = Append(calls, [node |-> e, args |-> o, res |-> out.r])
          /\ result' = out.r
          /\ pc' = "raised"
    /\ UNCHANGED <<heap, call, expr, fn, kwargs, visited>>

\* The stack is empty: return visited[expr]
Return ==
    /\ pc = "loop"
    /\ stack = <<>>
    /\ result' = IF expr \in DOMAIN visited THEN visited[expr] ELSE Raise("KeyError")
    /\ pc' = "done"
    /\ UNCHANGED <<heap, call, expr, fn, kwargs, stack, visited, calls>>

-----------------------------------------------------------------------------
(* The library used by a caller that builds expressions bottom-up and then *)
(* renders them or calls differentiate on them (Spec), or differentiates   *)
(* them with postvisitor (SpecDiff).                                       *)

Init ==
    /\ heap = <<>>
    /\ call = [name |-> "none", args |-> <<>>]
    /\ pc = "idle"
    /\ expr = 0
    /\ fn = "none"
    /\ kwargs = Absent
    /\ stack = <<>>
    /\ visited = <<>>
    /\ calls = <<>>
    /\ result = None

\* The calls that build nodes.
Build ==
    \/ \E v \in NumberArgs : CallNumber(v)
    \/ \E v \in SymbolArgs : CallSymbol(v)
    \/ \E kind \in DirectKinds : \E o \in {<<>>} \cup {<<a>> : a \in Newest} :
          CallExpression(kind, o)
    \/ \E m \in Methods : \E a, b \in {Ref(i) : i \in Nodes} \cup NativeArgs :
          CallOperator(m, a, b)

Next ==
    \/ Build
    \/ \E e \in Newest : CallStr(e)
    \/ \E e \in Newest : \E n \in Names : CallDifferentiate(e, <<PyStr(n)>>, Absent)
    \/ \E e \in Newest : \E n \in Names : CallDifferentiate(e, <<>>, PyStr(n))

Spec == Init /\ [][Next]_vars

NextDiff ==
    \/ Build
    \/ \E e \in Newest : \E n \in Vars : CallPostvisitor(e, PyStr(n))
    \/ LoopPush
    \/ LoopVisit
    \/ LoopRaise
    \/ Return

SpecDiff == Init /\ [][NextDiff]_vars

-----------------------------------------------------------------------------
(* postvisitor on a given operand graph, cyclic ones included (operands is *)
(* an ordinary attribute: code outside the library can tie a node into its *)
(* own operands), with the counting visitor.                               *)

\* The nodes reachable from e in h along operands, e included.
RECURSIVE ReachFrom(_, _, _)
ReachFrom(h, todo, seen) ==
    IF todo = {} THEN seen
    ELSE LET e == CHOOSE x \in todo : TRUE
             more == {h[e].operands[k] : k \in 1..Len(h[e].operands)} \ (seen \cup {e})
         IN ReachFrom(h, (todo \ {e}) \cup more, seen \cup {e})

Reachable(h, e) == ReachFrom(h, {e}, {})

\* e lies on a cycle of h: it is reachable from one of its operands.
OnCycle(h, e) ==
    \E k \in 1..Len(h[e].operands) : e \in Reachable(h, h[e].operands[k])

\* The graphs of n nodes: a node is a Symbol or an Add of any two nodes.
Shapes(n) ==
    {[kind |-> "Symbol", operands |-> <<>>, value |-> PyStr("x")]}
    \cup {[kind |-> "Add", operands |-> <<a, b>>, value |-> None] : a, b \in 1..n}

InitGraph ==
    /\ \E n \in 1..MaxNodes :
          /\ heap \in [1..n -> Shapes(n)]
          /\ Reachable(heap, n) = 1..n
    /\ call = [name |-> "none", args |-> <<>>]
    /\ pc = "idle"
    /\ expr = 0
    /\ fn = "none"
    /\ kwargs = Absent
    /\ stack = <<>>
    /\ visited = <<>>
    /\ calls = <<>>
    /\ result = None

\* postvisitor(heap[-1], count): the root is the last node, and every node of
\* the graph is reachable from it.
CallPostvisitorGraph ==
    /\ pc = "idle"
    /\ Enter(Len(heap), "count", Absent)

NextGraph ==
    \/ CallPostvisitorGraph
    \/ LoopPush
    \/ LoopVisit
    \/ Return

SpecGraph == InitGraph /\ [][NextGraph]_vars

\* The loop runs on its own: an iteration that can be taken is taken.
FairSpecGraph == SpecGraph /\ WF_vars(NextGraph)

-----------------------------------------------------------------------------
(* What the claims speak of.                                               *)

\* The expression rooted at node i as a tree: kind, wrapped value, operand trees.
RECURSIVE Term(_, _)
Term(h, i) ==
    [kind |-> h[i].kind, value |-> h[i].value,
     args |-> [k \in 1..Len(h[i].operands) |-> Term(h, h[i].operands[k])]]

TNumber(v) == [kind |-> "Number", value |-> v, args |-> <<>>]
TSymbol(n) == [kind |-> "Symbol", value |-> PyStr(n), args |-> <<>>]
TOp(kind, a, b) == [kind |-> kind, value |-> None, args |-> <<a, b>>]

\* The derivative of tree t by the name v, by the rule table of the
\* differentiation section, applied bottom-up.
RECURSIVE Derivative(_, _)
Derivative(t, v) ==
    LET e0 == t.args[1]
        e1 == t.args[2]
        d0 == Derivative(e0, v)
        d1 == Derivative(e1, v)
    IN CASE t.kind = "Number" -> TNumber(PyFloat(0))
         [] t.kind = "Symbol" -> IF t.value = PyStr(v) THEN TNumber(PyFloat(1))
                                 ELSE TNumber(PyFloat(0))
         [] t.kind = "Add" -> TOp("Add", d0, d1)
         [] t.kind = "Sub" -> TOp("Sub", d0, d1)
         [] t.kind = "Mul" -> TOp("Add", TOp("Mul", d0, e1), TOp("Mul", d1, e0))
         [] t.kind = "Div" ->
              TOp("Div", TOp("Sub", TOp("Mul", d0, e1), TOp("Mul", e0, d1)),
                  TOp("Pow", e1, TNumber(PyInt(2))))
         [] t.kind = "Pow" ->
              TOp("Mul", TOp("Mul", e1, TOp("Pow", e0, TOp("Sub", e1, TNumber(PyInt(1))))), d0)

\* Every node reachable from e is a Number, a Symbol or an operator node with
\* two operands.
WellFormed(h, e) ==
    \A i \in Reachable(h, e) :
        \/ h[i].kind \in TerminalKinds /\ h[i].operands = <<>>
        \/ h[i].kind \in OperatorKinds /\ Len(h[i].operands) = 2

\* The invocations of fn on node e so far.
CallsOn(e) == {k \in 1..Len(calls) : calls[k].node = e}

\* The operand graph under the root has a cycle.
Cyclic == expr # 0 /\ \E e \in Reachable(heap, expr) : OnCycle(heap, e)

-----------------------------------------------------------------------------
\* C1: when postvisitor has returned on a graph without cycles, fn has been
\* invoked exactly once on every node reachable from the root, shared nodes
\* and nodes that are both operands of one parent included.
C1_EveryNodeOnce ==
    pc = "done" => \A e \in Reachable(heap, expr) : Cardinality(CallsOn(e)) = 1

\* C2: fn is invoked on a node only when each of its operands has a result in
\* the memo, and the invocation receives exactly those results, in operand
\* order.
C2_OperandsFirst ==
    [][Len(calls') = Len(calls) + 1 =>
          LET c == calls'[Len(calls')]
              ops == heap[c.node].operands
          IN /\ \A k \in 1..Len(ops) : ops[k] \in DOMAIN visited
             /\ Len(c.args) = Len(ops)
             /\ \A k \in 1..Len(ops) : c.args[k] = visited[ops[k]]]_vars

\* C2's case: postvisitor has returned after an invocation on a node with two
\* different operands, whose results differ, and one on a node whose operands
\* are one node, which received one result twice.
C2_Witness ==
    /\ pc = "done"
    /\ \E k \in 1..Len(calls) :
          /\ Len(calls[k].args) = 2
          /\ calls[k].args[1] # calls[k].args[2]
    /\ \E k \in 1..Len(calls) :
          /\ Len(calls[k].args) = 2
          /\ heap[calls[k].node].operands[1] = heap[calls[k].node].operands[2]
          /\ calls[k].args[1] = calls[k].args[2]

\* C3: on a graph without cycles the traversal, once in its loop, ends with an
\* empty stack and returns the memoized result, which is the result fn gave
\* for the root.
C3_Terminates ==
    (pc = "loop" /\ ~Cyclic)
        ~> /\ pc = "done"
           /\ stack = <<>>
           /\ expr \in DOMAIN visited
           /\ result = visited[expr]
           /\ \E k \in CallsOn(expr) : calls[k].res = result

\* C3's case: postvisitor has returned on a graph of several nodes, one of
\* them shared.
C3_Witness ==
    /\ pc = "done"
    /\ Len(heap) >= 3
    /\ \E e \in Nodes : Cardinality(CallsOn(e)) > 1
    /\ result = visited[expr]

\* C4: on a graph with a cycle under the root postvisitor neither returns nor
\* raises, its loop condition stays true, and no node on a cycle gets a memo
\* entry or an invocation of fn.
C4_CycleNeverEnds ==
    Cyclic =>
        /\ pc = "loop"
        /\ stack # <<>>
        /\ \A e \in Reachable(heap, expr) :
              OnCycle(heap, e) => e \notin DOMAIN visited /\ CallsOn(e) = {}

\* C4's case: a cycle below the root, reached after fn was invoked on a node
\* off the cycle, with the stack grown beyond the number of nodes.
C4_Witness ==
    /\ Cyclic
    /\ ~OnCycle(heap, expr)
    /\ calls # <<>>
    /\ Len(stack) > Len(heap)

\* A traversal with differentiate is under way or over.
Differentiating == call.name = "postvisitor" /\ fn = "differentiate"

\* C5: postvisitor(expr, differentiate, var=var) on an expression of Number,
\* Symbol and two-operand operator nodes does not raise, and returns a tree
\* equal to the rule table's derivative of the expression.
C5_RuleTable ==
    (Differentiating /\ WellFormed(heap, expr)) =>
        /\ pc # "raised"
        /\ pc = "done" =>
              /\ IsExpression(result)
              /\ Term(heap, result.n) = Derivative(Term(heap, expr), kwargs.s)

\* C5's case: the derivative of a quotient or of a power whose operands hold
\* the name differentiated by has been returned.
C5_Witness ==
    /\ Differentiating
    /\ pc = "done"
    /\ heap[expr].kind \in {"Div", "Pow"}
    /\ \E i \in Reachable(heap, expr) : heap[i].value = kwargs

\* The caller has called differentiate(e, name) on a well-formed expression.
DirectByPosition ==
    /\ call.name = "differentiate"
    /\ Len(call.args) = 3
    /\ IsStr(call.args[2])
    /\ call.args[3] = Absent
    /\ WellFormed(heap, call.args[1].n)

\* The caller has called differentiate(e, var=name) on a well-formed expression.
DirectByKeyword ==
    /\ call.name = "differentiate"
    /\ Len(call.args) = 2
    /\ IsStr(call.args[2])
    /\ WellFormed(heap, call.args[1].n)

ClassOf(m) ==
    CASE m = "add" -> "Add"
      [] m = "sub" -> "Sub"
      [] m = "mul" -> "Mul"
      [] m = "truediv" -> "Div"
      [] m = "pow" -> "Pow"

\* Node i is Number(v).
IsNumberNode(h, i, v) ==
    h[i].kind = "Number" /\ h[i].value = v /\ h[i].operands = <<>>

\* C7: e op n yields the op's node with operands (e, Number(n)), and n op e
\* the op's node with operands (Number(n), e), for each of the five operators.
C7_OperandOrder ==
    (call.name \in Methods /\ Len(call.args) = 2) =>
        LET a == call.args[1]
            b == call.args[2]
        IN /\ (IsExpression(a) /\ IsNumber(b)) =>
                 /\ IsExpression(result)
                 /\ heap[result.n].kind = ClassOf(call.name)
                 /\ Len(heap[result.n].operands) = 2
                 /\ heap[result.n].operands[1] = a.n
                 /\ IsNumberNode(heap, heap[result.n].operands[2], b)
           /\ (IsNumber(a) /\ IsExpression(b)) =>
                 /\ IsExpression(result)
                 /\ heap[result.n].kind = ClassOf(call.name)
                 /\ Len(heap[result.n].operands) = 2
                 /\ IsNumberNode(heap, heap[result.n].operands[1], a)
                 /\ heap[result.n].operands[2] = b.n

\* C7's case: a number minus, over or to the power of an expression.
C7_Witness ==
    /\ call.name \in {"sub", "truediv", "pow"}
    /\ IsNumber(call.args[1])
    /\ IsExpression(call.args[2])
    /\ IsExpression(result)

\* The precedence table of the data model.
TablePrecedence(kind) ==
    CASE kind \in {"Add", "Sub"} -> 0
      [] kind \in {"Mul", "Div"} -> 1
      [] kind = "Pow" -> 2
      [] kind \in TerminalKinds -> 3

\* The glyph table of the data model.
TableGlyph(kind) ==
    CASE kind = "Add" -> "+"
      [] kind = "Sub" -> "-"
      [] kind = "Mul" -> "*"
      [] kind = "Div" -> "/"
      [] kind = "Pow" -> "^"

\* str(c), in parentheses exactly when c's precedence is below p.
Wrapped(h, c, p) ==
    IF TablePrecedence(h[c].kind) < p THEN "(" \o str(h, c).s \o ")" ELSE str(h, c).s

\* C8: an operator node renders as its operands' renderings around the glyph
\* with one space on each side, an operand in parentheses exactly when its
\* precedence is strictly below the node's; a terminal renders as its value.
C8_Rendering ==
    \A e \in Nodes :
        WellFormed(heap, e) =>
            /\ heap[e].kind \in OperatorKinds =>
                  str(heap, e) =
                      PyStr(Wrapped(heap, heap[e].operands[1], TablePrecedence(heap[e].kind))
                            \o " " \o TableGlyph(heap[e].kind) \o " "
                            \o Wrapped(heap, heap[e].operands[2], TablePrecedence(heap[e].kind)))
            /\ Term(heap, e) = TOp("Mul", TOp("Add", TSymbol("x"), TSymbol("y")), TSymbol("x")) =>
                  str(heap, e) = PyStr("(x + y) * x")
            /\ Term(heap, e) = TOp("Mul", TOp("Add", TSymbol("x"), TSymbol("x")), TSymbol("x")) =>
                  str(heap, e) = PyStr("(x + x) * x")
            /\ Term(heap, e) = TOp("Add", TSymbol("x"), TOp("Mul", TSymbol("y"), TSymbol("x"))) =>
                  str(heap, e) = PyStr("x + y * x")
            /\ Term(heap, e) = TOp("Add", TSymbol("x"), TOp("Mul", TSymbol("x"), TSymbol("x"))) =>
                  str(heap, e) = PyStr("x + x * x")
            /\ Term(heap, e) = TOp("Sub", TSymbol("x"), TOp("Sub", TSymbol("x"), TSymbol("x"))) =>
                  str(heap, e) = PyStr("x - x - x")
            /\ Term(heap, e) = TOp("Div", TSymbol("x"), TOp("Div", TSymbol("x"), TSymbol("x"))) =>
                  str(heap, e) = PyStr("x / x / x")

\* C8's case: str has been called on a Sub or Div node whose right operand is
\* a Sub or Div node of the same precedence, and rendered it bare.
C8_Witness ==
    /\ call.name = "str"
    /\ IsStr(result)
    /\ LET e == call.args[1].n
       IN /\ WellFormed(heap, e)
          /\ heap[e].kind \in {"Sub", "Div"}
          /\ heap[heap[e].operands[2]].kind \in {"Sub", "Div"}
          /\ TablePrecedence(heap[heap[e].operands[2]].kind) = TablePrecedence(heap[e].kind)
          /\ result \in {PyStr("x - x - x"), PyStr("x / x / x")}

\* C9: in every step the nodes there were keep their operands and values,
\* and every terminal node has no operands and every operator node two.
C9_ArityAndImmutability ==
    [][/\ Len(heap') >= Len(heap)
       /\ \A i \in 1..Len(heap) : heap'[i] = heap[i]
       /\ \A i \in 1..Len(heap') :
             /\ heap'[i].kind \in TerminalKinds => heap'[i].operands = <<>>
             /\ heap'[i].kind \in OperatorKinds => Len(heap'[i].operands) = 2]_vars

\* C10: an invocation of differentiate by postvisitor on a node of a class
\* with no registered rule is the traversal's last: it raises
\* NotImplementedError, which leaves postvisitor with no result for the root.
C10_NotImplemented ==
    Differentiating =>
        \A k \in 1..Len(calls) :
            heap[calls[k].node].kind \notin (TerminalKinds \cup OperatorKinds) =>
                /\ k = Len(calls)
                /\ calls[k].res = Raise("NotImplementedError")
                /\ pc = "raised"
                /\ result = Raise("NotImplementedError")
                /\ expr \notin DOMAIN visited

\* C10's case: the traversal met a bare Expression below the root after it
\* had differentiated another node, and raised with nodes left on the stack.
C10_Witness ==
    /\ Differentiating
    /\ pc = "raised"
    /\ result = Raise("NotImplementedError")
    /\ Len(calls) > 1
    /\ stack # <<>>

====
